---- MODULE Spec2Model ----
(***************************************************************************)
(* Model of src/groth16/prover/supraseal.rs: the SupraSeal batch prover.   *)
(*                                                                         *)
(* create_proof_batch_priority_inner synthesizes a batch of circuits in a  *)
(* rayon worker pool (synthesize_circuits_batch), resolves the blinding    *)
(* scalars, asserts that the circuits are equally sized, exports every     *)
(* ProvingAssignment as a flat supraseal_c2::Assignment, resolves the SRS  *)
(* and calls the native backend once.                                      *)
(***************************************************************************)
EXTENDS Integers, Sequences, FiniteSets, TLC

\* ------------------------------------------------------------------ bounds
\* Largest number of circuits in a batch.
MaxCircuits == 2
\* Largest number of constraint-system calls one circuit makes in synthesize.
MaxOps == 1

\* ------------------------------------------------------------ scalar field
\* The scalar field E::Fr, shrunk to the integers modulo 3.
Fr == 0 .. 2
FrAdd(x, y) == (x + y) % Cardinality(Fr)
FrMul(x, y) == (x * y) % Cardinality(Fr)
\* E::Fr::ZERO, the additive identity.
ZERO == 0
\* Scalar::ONE, the multiplicative identity.
ONE == 1

\* ------------------------------------------------------------------ errors
\* SynthesisError values a circuit's synthesize can return.
CircuitErrors == {"AssignmentMissing", "Unsatisfiable"}
MalformedSrs == "MalformedSrs"
NoError == "none"

\* ---------------------------------------------------------------- variables
\* Variable(Index::Input(i)) and Variable(Index::Aux(i)); i counts from 0.
Input(i) == [kind |-> "Input", i |-> i]
Aux(i) == [kind |-> "Aux", i |-> i]
Term(v, coeff) == [var |-> v, coeff |-> coeff]

\* ----------------------------------------------------------- DensityTracker
\* A bit per variable and the cached number of set bits.
DensityTracker_new == [bv |-> <<>>, total_density |-> 0]

add_element(d) == [d EXCEPT !.bv = Append(@, FALSE)]

inc(d, idx) ==
    IF d.bv[idx + 1]
    THEN d
    ELSE [bv |-> [d.bv EXCEPT ![idx + 1] = TRUE],
          total_density |-> d.total_density + 1]

get_total_density(d) == d.total_density

\* -------------------------------------------------------- ProvingAssignment
\* cid, own, handles, lcs, circuit and dlog are history fields, not part of
\* the Rust struct: cid is the position of the circuit in the input batch, own
\* the number of constraints recorded when circuit.synthesize returned (-1
\* before), handles the indices of the input variables handed out to the
\* circuit, lcs the linear combinations passed to each enforce call, circuit
\* the calls the circuit made, dlog the three density trackers as they stood
\* after each call on the constraint system.
ProvingAssignment_new(cid) ==
    [a_aux_density |-> DensityTracker_new,
     b_input_density |-> DensityTracker_new,
     b_aux_density |-> DensityTracker_new,
     a |-> <<>>, b |-> <<>>, c |-> <<>>,
     input_assignment |-> <<>>,
     aux_assignment |-> <<>>,
     cid |-> cid, own |-> -1, handles |-> <<>>, lcs |-> <<>>,
     circuit |-> <<>>, dlog |-> <<>>]

\* The history of the trackers, extended by their present state.
Logged(p) ==
    [p EXCEPT !.dlog = Append(@, [a_aux_density |-> p.a_aux_density,
                                  b_input_density |-> p.b_input_density,
                                  b_aux_density |-> p.b_aux_density])]

alloc_input(p, value) ==
    Logged([p EXCEPT !.input_assignment = Append(@, value),
                     !.b_input_density = add_element(@)])

alloc(p, value) ==
    Logged([p EXCEPT !.aux_assignment = Append(@, value),
                     !.a_aux_density = add_element(@),
                     !.b_aux_density = add_element(@)])

\* LinearCombination::eval: the value of the combination; terms with a zero
\* coefficient contribute nothing.
RECURSIVE eval(_, _)
eval(lc, p) ==
    IF lc = <<>>
    THEN ZERO
    ELSE LET t == Head(lc)
             v == IF t.var.kind = "Input"
                  THEN p.input_assignment[t.var.i + 1]
                  ELSE p.aux_assignment[t.var.i + 1]
         IN  FrAdd(IF t.coeff = ZERO THEN ZERO ELSE FrMul(v, t.coeff),
                   eval(Tail(lc), p))

\* The density side of eval: every variable of the given kind that the
\* combination references with a nonzero coefficient has its bit set.
RECURSIVE mark(_, _, _)
mark(d, lc, kind) ==
    IF lc = <<>>
    THEN d
    ELSE LET t == Head(lc)
         IN  mark(IF t.var.kind = kind /\ t.coeff # ZERO THEN inc(d, t.var.i) ELSE d,
                  Tail(lc), kind)

\* Mutant of enforce: the evaluation of C is not recorded.
enforce_NoC(p, A, B, C) ==
    [p EXCEPT !.a = Append(@, eval(A, p)),
              !.b = Append(@, eval(B, p)),
              !.a_aux_density = mark(@, A, "Aux"),
              !.b_input_density = mark(@, B, "Input"),
              !.b_aux_density = mark(@, B, "Aux"),
              !.lcs = Append(@, [A |-> A, B |-> B, C |-> C])]

enforce(p, A, B, C) ==
    Logged([p EXCEPT !.a = Append(@, eval(A, p)),
                     !.b = Append(@, eval(B, p)),
                     !.c = Append(@, eval(C, p)),
                     !.a_aux_density = mark(@, A, "Aux"),
                     !.b_input_density = mark(@, B, "Input"),
                     !.b_aux_density = mark(@, B, "Aux"),
                     !.lcs = Append(@, [A |-> A, B |-> B, C |-> C])])

\* ------------------------------------------------------------------ circuits
\* A circuit is an opaque Circuit<Scalar>: all the prover sees of it is the
\* calls its synthesize makes on the constraint system and the result it
\* returns.  A behaviour is a sequence of at most MaxOps calls and a result.
OpKinds == {"alloc_input", "alloc", "enforce"}

SeqsUpTo(S, k) == UNION {[1 .. m -> S] : m \in 0 .. k}

CircuitBehaviours ==
    [ops : SeqsUpTo(OpKinds, MaxOps), result : {"Ok"} \cup CircuitErrors]

\* The value a circuit binds to the variables it allocates.
CircuitValue == FrAdd(ONE, ONE)

\* The combinations of the circuit's constraint: over the input and the
\* auxiliary variable allocated last (none when there is none).
LastInput(p) == Len(p.input_assignment) - 1
LastAux(p) == Len(p.aux_assignment) - 1

CircuitA(p) ==
    (IF LastInput(p) >= 0 THEN <<Term(Input(LastInput(p)), ONE)>> ELSE <<>>)
    \o (IF LastAux(p) >= 0 THEN <<Term(Aux(LastAux(p)), ZERO)>> ELSE <<>>)

CircuitB(p) ==
    IF LastAux(p) >= 0 THEN <<Term(Aux(LastAux(p)), ONE)>>
    ELSE IF LastInput(p) >= 0 THEN <<Term(Input(0), ONE)>>
    ELSE <<>>

CircuitC(p) ==
    IF LastInput(p) >= 0 THEN <<Term(Input(LastInput(p)), ONE)>> ELSE <<>>

RunOp(p, op) ==
    CASE op = "alloc_input" ->
           [alloc_input(p, CircuitValue)
               EXCEPT !.handles = Append(@, Len(p.input_assignment))]
      [] op = "alloc" -> alloc(p, CircuitValue)
      [] op = "enforce" -> enforce(p, CircuitA(p), CircuitB(p), CircuitC(p))

\* circuit.synthesize(&mut prover): the prover after the circuit's calls.
RECURSIVE RunOps(_, _)
RunOps(p, ops) ==
    IF ops = <<>> THEN p ELSE RunOps(RunOp(p, Head(ops)), Tail(ops))

synthesize(circuit, p) ==
    [RunOps(p, circuit.ops) EXCEPT !.own = Len(RunOps(p, circuit.ops).a),
                                   !.circuit = circuit.ops]

\* ------------------------------------------------- the worker closure
\* Mutant of NewProver: the constant one is not allocated.
NewProver_NoOne(cid) == ProvingAssignment_new(cid)

\* Lines 130-132: a fresh ProvingAssignment with the constant one allocated.
NewProver(cid) == alloc_input(ProvingAssignment_new(cid), ONE)

\* Mutant of IdentityConstraint: the A combination is left empty as well.
IdentityConstraint_EmptyA(p, i) == enforce(p, <<>>, <<>>, <<>>)

\* Line 137: the constraint added for input i.
IdentityConstraint(p, i) == enforce(p, <<Term(Input(i), ONE)>>, <<>>, <<>>)

\* Lines 136-138: for i in 0..prover.input_assignment.len().
RECURSIVE IdentityLoop(_, _, _)
IdentityLoop(p, i, len) ==
    IF i >= len THEN p ELSE IdentityLoop(IdentityConstraint(p, i), i + 1, len)

\* Mutant of IdentityConstraints: the loop starts after the constant one.
IdentityConstraints_SkipOne(p) == IdentityLoop(p, 1, Len(p.input_assignment))

\* Mutant of IdentityConstraints: one constraint for each input that the
\* circuit allocated.
IdentityConstraints_PerHandle(p) == IdentityLoop(p, 0, Len(p.handles))

IdentityConstraints(p) == IdentityLoop(p, 0, Len(p.input_assignment))

\* --------------------------------------------------------------- the export
\* From<&ProvingAssignment> for supraseal_c2::Assignment: the two assertions.
ExportAsserts(p) == Len(p.a) = Len(p.b) /\ Len(p.a) = Len(p.c)

\* Mutant of From: the popcount of b_input_density is taken from
\* a_aux_density.
From_WrongPopcount(p, k) ==
    [ptr |-> k,
     a_aux_bit_len |-> Len(p.a_aux_density.bv),
     a_aux_popcount |-> get_total_density(p.a_aux_density),
     b_inp_bit_len |-> Len(p.b_input_density.bv),
     b_inp_popcount |-> get_total_density(p.a_aux_density),
     b_aux_bit_len |-> Len(p.b_aux_density.bv),
     b_aux_popcount |-> get_total_density(p.b_aux_density),
     abc_size |-> Len(p.a),
     inp_assignment_size |-> Len(p.input_assignment),
     aux_assignment_size |-> Len(p.aux_assignment)]

\* The flat view of provers[k]: lengths and popcounts by value, the buffers by
\* pointer (ptr names the ProvingAssignment the pointers point into).
From(p, k) ==
    [ptr |-> k,
     a_aux_bit_len |-> Len(p.a_aux_density.bv),
     a_aux_popcount |-> get_total_density(p.a_aux_density),
     b_inp_bit_len |-> Len(p.b_input_density.bv),
     b_inp_popcount |-> get_total_density(p.b_input_density),
     b_aux_bit_len |-> Len(p.b_aux_density.bv),
     b_aux_popcount |-> get_total_density(p.b_aux_density),
     abc_size |-> Len(p.a),
     inp_assignment_size |-> Len(p.input_assignment),
     aux_assignment_size |-> Len(p.aux_assignment)]

\* ------------------------------------------------------------ randomization
\* The caller's Option<(Vec<E::Fr>, Vec<E::Fr>)>: None, or two vectors of any
\* lengths.  The lengths drawn for a batch of num_circuits circuits are one
\* shorter than the batch, equal to it and one longer.
RandVec(len, first) == [k \in 1 .. len |-> FrAdd(first, k)]

RandLens(num_circuits) == {k \in num_circuits - 1 .. num_circuits + 1 : k >= 0}

Randomizations(num_circuits) ==
    {[tag |-> "None", r |-> <<>>, s |-> <<>>]}
    \cup {[tag |-> "Some", r |-> RandVec(lr, ZERO), s |-> RandVec(ls, ONE)] :
            lr \in RandLens(num_circuits), ls \in RandLens(num_circuits)}

\* Mutant of ZeroVec: the default scalars are ones.
ZeroVec_Ones(num_circuits) == [k \in 1 .. num_circuits |-> ONE]

\* vec![E::Fr::ZERO; num_circuits]
ZeroVec(num_circuits) == [k \in 1 .. num_circuits |-> ZERO]

\* Lines 75-78: randomization.unwrap_or((zeros, zeros)).
ResolveRandomization(rand, num_circuits) ==
    IF rand.tag = "Some"
    THEN [r |-> rand.r, s |-> rand.s]
    ELSE [r |-> ZeroVec(num_circuits), s |-> ZeroVec(num_circuits)]

\* Mutant of EquallySized: the loop compares the numbers of inputs.
EquallySized_InputLen(p, first) ==
    Len(p.input_assignment) = Len(first.input_assignment)

\* Lines 81-87: the assertion of the validation loop, for one prover.
EquallySized(p, first) == Len(p.a) = Len(first.a)

ValidationPasses(ps) == \A k \in 1 .. Len(ps) : EquallySized(ps[k], ps[1])

\* ------------------------------------------------------------------ proofs
Uninit == [written |-> FALSE, cid |-> 0, r |-> ZERO, s |-> ZERO]

\* Mutant of AllocProofs: set_len with one slot more than the circuits.
AllocProofs_OneMore(num_circuits) == [k \in 1 .. num_circuits + 1 |-> Uninit]

\* Lines 92-97: Vec::with_capacity(num_circuits) and set_len(num_circuits).
AllocProofs(num_circuits) == [k \in 1 .. num_circuits |-> Uninit]

\* The backend: it writes the proof of view k, blinded by r_s[k] and s_s[k], to
\* slot k.  It takes the number of circuits from the views; a scalar it reads
\* past the end of r_s or s_s is whatever the memory holds (junk).
ScalarAt(v, k, junk) == IF k <= Len(v) THEN v[k] ELSE junk

generate_groth16_proofs(ps, views, r, s, out, junk_r, junk_s) ==
    [k \in 1 .. Len(out) |->
        IF k <= Len(views)
        THEN [written |-> TRUE, cid |-> ps[views[k].ptr].cid,
              r |-> ScalarAt(r, k, junk_r), s |-> ScalarAt(s, k, junk_s)]
        ELSE out[k]]

\* ===================================================================== state
VARIABLES
    n,              \* circuits.len(), the size of the batch
    wpc,            \* per circuit: where the worker closure on it stands
    wprover,        \* per circuit: the prover its closure returned
    werr,           \* per circuit: the error its closure returned
    saved_error,    \* rayon's collect: the first error stored
    full,           \* rayon's collect: the stop flag set by an error
    finished,       \* the circuits in the order their closures returned
    pc,             \* the position of create_proof_batch_priority_inner
    provers,        \* line 68
    randomization,  \* the argument, as read at line 75
    r_s, s_s,       \* line 75
    provers_c2,     \* line 89
    proofs,         \* line 92
    srs,            \* line 99
    srs_queries,    \* the number of calls of get_supraseal_srs made
    backend_calls,  \* the calls of generate_groth16_proofs made, in order
    result          \* what the call returned to the caller

vars == <<n, wpc, wprover, werr, saved_error, full, finished, pc, provers,
          randomization, r_s, s_s, provers_c2, proofs, srs, srs_queries,
          backend_calls, result>>

workerVars == <<wpc, wprover, werr, saved_error, full, finished>>
mainVars == <<pc, provers, randomization, r_s, s_s, provers_c2, proofs, srs,
              srs_queries, backend_calls, result>>

NoProver == ProvingAssignment_new(0)
Unread == [tag |-> "unread", r |-> <<>>, s |-> <<>>]
Pending == [tag |-> "Pending", err |-> NoError, proofs |-> <<>>]
Ok(ps) == [tag |-> "Ok", err |-> NoError, proofs |-> ps]
Err(e) == [tag |-> "Err", err |-> e, proofs |-> <<>>]
Panic(msg) == [tag |-> "Panic", err |-> msg, proofs |-> <<>>]

Init ==
    /\ n \in 0 .. MaxCircuits
    /\ wpc = [i \in 1 .. n |-> "idle"]
    /\ wprover = [i \in 1 .. n |-> NoProver]
    /\ werr = [i \in 1 .. n |-> NoError]
    /\ saved_error = NoError
    /\ full = FALSE
    /\ finished = <<>>
    /\ pc = "synthesize"
    /\ provers = <<>>
    /\ randomization = Unread
    /\ r_s = <<>>
    /\ s_s = <<>>
    /\ provers_c2 = <<>>
    /\ proofs = <<>>
    /\ srs = "unresolved"
    /\ srs_queries = 0
    /\ backend_calls = <<>>
    /\ result = Pending

\* ------------------------------------------- synthesize_circuits_batch
\* Mutant of SaveError: the error of a closure is not stored.
SaveError_Dropped(saved, e) == saved

\* rayon's collect into Result<Vec<_>, _>: an error is stored if none is yet.
SaveError(saved, e) == IF saved = NoError THEN e ELSE saved

\* Mutant of CollectProvers: the items in the order in which the closures
\* returned.
CollectProvers_CompletionOrder(out, order) ==
    [k \in 1 .. Len(order) |-> out[order[k]]]

\* rayon's collect into Vec: the items in the order of the input, whatever
\* the order in which the closures returned.
CollectProvers(out, order) == [k \in 1 .. Len(order) |-> out[k]]

\* Lines 130-140, the closure on circuit i: the new prover with the constant
\* one, circuit.synthesize (whose error ends the closure and drops the
\* prover) and the identity constraints.
WorkerRun(i) ==
    /\ pc = "synthesize"
    /\ wpc[i] = "idle"
    /\ \E circuit \in CircuitBehaviours :
         IF circuit.result = "Ok"
         THEN /\ wprover' = [wprover EXCEPT
                    ![i] = IdentityConstraints(synthesize(circuit, NewProver(i)))]
              /\ wpc' = [wpc EXCEPT ![i] = "ok"]
              /\ UNCHANGED <<werr, saved_error, full>>
         ELSE /\ werr' = [werr EXCEPT ![i] = circuit.result]
              /\ saved_error' = SaveError(saved_error, circuit.result)
              /\ full' = TRUE
              /\ wpc' = [wpc EXCEPT ![i] = "err"]
              /\ UNCHANGED wprover
    /\ finished' = Append(finished, i)
    /\ UNCHANGED <<n, mainVars>>

\* After an error rayon may drop a circuit that no closure has started on.
WorkerSkip(i) ==
    /\ pc = "synthesize"
    /\ wpc[i] = "idle"
    /\ full
    /\ wpc' = [wpc EXCEPT ![i] = "skipped"]
    /\ finished' = Append(finished, i)
    /\ UNCHANGED <<n, wprover, werr, saved_error, full, mainVars>>

\* Mutant of Collect: the SRS is resolved before the result of the synthesis
\* is looked at.
Collect_SrsFirst ==
    /\ pc = "synthesize"
    /\ \A i \in 1 .. n : wpc[i] \in {"ok", "err", "skipped"}
    /\ \E available \in BOOLEAN :
         /\ srs' = IF available THEN "handle" ELSE "unavailable"
         /\ IF ~available
            THEN /\ result' = Err(MalformedSrs)
                 /\ pc' = "done"
                 /\ UNCHANGED provers
            ELSE IF saved_error # NoError
            THEN /\ result' = Err(saved_error)
                 /\ pc' = "done"
                 /\ UNCHANGED provers
            ELSE /\ provers' = CollectProvers(wprover, finished)
                 /\ pc' = "resolve_randomization"
                 /\ UNCHANGED result
    /\ srs_queries' = srs_queries + 1
    /\ finished' = <<>>
    /\ UNCHANGED <<n, wpc, wprover, werr, saved_error, full, randomization,
                   r_s, s_s, provers_c2, proofs, backend_calls>>

\* Line 142 and line 68: the collect returns when every closure has, and `?`
\* returns the stored error to the caller.
Collect ==
    /\ pc = "synthesize"
    /\ \A i \in 1 .. n : wpc[i] \in {"ok", "err", "skipped"}
    /\ IF saved_error # NoError
       THEN /\ result' = Err(saved_error)
            /\ pc' = "done"
            /\ UNCHANGED provers
       ELSE /\ provers' = CollectProvers(wprover, finished)
            /\ pc' = "resolve_randomization"
            /\ UNCHANGED result
    /\ finished' = <<>>
    /\ UNCHANGED <<n, wpc, wprover, werr, saved_error, full, randomization,
                   r_s, s_s, provers_c2, proofs, srs, srs_queries, backend_calls>>

\* ------------------------------------- create_proof_batch_priority_inner
\* A return or a panic drops the locals of the call.
DropLocals ==
    /\ provers' = <<>>
    /\ randomization' = Unread
    /\ r_s' = <<>>
    /\ s_s' = <<>>
    /\ provers_c2' = <<>>
    /\ proofs' = <<>>

\* Lines 74-87: the randomization is resolved, then the validation loop runs;
\* assert_eq! panics on the first prover of another size.
RandomizeAndValidate ==
    /\ pc = "resolve_randomization"
    /\ \E rand \in Randomizations(Len(provers)) :
         IF ValidationPasses(provers)
         THEN /\ randomization' = rand
              /\ r_s' = ResolveRandomization(rand, Len(provers)).r
              /\ s_s' = ResolveRandomization(rand, Len(provers)).s
              /\ pc' = "export"
              /\ UNCHANGED <<provers, provers_c2, proofs, result>>
         ELSE /\ pc' = "done"
              /\ result' = Panic("only equaly sized circuits are supported")
              /\ DropLocals
    /\ UNCHANGED <<n, workerVars, srs, srs_queries, backend_calls>>

\* Mutant of Export: the conversion consumes the provers, so the views
\* outlive them.
Export_Consuming ==
    /\ pc = "export"
    /\ IF \A k \in 1 .. Len(provers) : ExportAsserts(provers[k])
       THEN /\ provers_c2' = [k \in 1 .. Len(provers) |-> From(provers[k], k)]
            /\ provers' = <<>>
            /\ pc' = "alloc_proofs"
            /\ UNCHANGED <<randomization, r_s, s_s, proofs, result>>
       ELSE /\ pc' = "done"
            /\ result' = Panic("assertion failed: left == right")
            /\ DropLocals
    /\ UNCHANGED <<n, workerVars, srs, srs_queries, backend_calls>>

\* Lines 89-90: every prover is converted; a failed assertion panics.
Export ==
    /\ pc = "export"
    /\ IF \A k \in 1 .. Len(provers) : ExportAsserts(provers[k])
       THEN /\ provers_c2' = [k \in 1 .. Len(provers) |-> From(provers[k], k)]
            /\ pc' = "alloc_proofs"
            /\ UNCHANGED <<provers, randomization, r_s, s_s, proofs, result>>
       ELSE /\ pc' = "done"
            /\ result' = Panic("assertion failed: left == right")
            /\ DropLocals
    /\ UNCHANGED <<n, workerVars, srs, srs_queries, backend_calls>>

\* Lines 92-97.
AllocateProofs ==
    /\ pc = "alloc_proofs"
    /\ proofs' = AllocProofs(Len(provers))
    /\ pc' = "get_srs"
    /\ UNCHANGED <<n, workerVars, provers, randomization, r_s, s_s, provers_c2,
                   srs, srs_queries, backend_calls, result>>

\* Mutant of GetSrs: an unavailable SRS does not end the call.
GetSrs_Unchecked ==
    /\ pc = "get_srs"
    /\ \E available \in BOOLEAN :
         /\ srs' = IF available THEN "handle" ELSE "unavailable"
         /\ pc' = "backend"
    /\ srs_queries' = srs_queries + 1
    /\ UNCHANGED <<n, workerVars, provers, randomization, r_s, s_s, provers_c2,
                   proofs, backend_calls, result>>

\* Lines 99-102: params.get_supraseal_srs() is Some or None.
GetSrs ==
    /\ pc = "get_srs"
    /\ \E available \in BOOLEAN :
         IF available
         THEN /\ srs' = "handle"
              /\ pc' = "backend"
              /\ UNCHANGED <<provers, randomization, r_s, s_s, provers_c2, proofs,
                             result>>
         ELSE /\ srs' = "unavailable"
              /\ pc' = "done"
              /\ result' = Err(MalformedSrs)
              /\ DropLocals
    /\ srs_queries' = srs_queries + 1
    /\ UNCHANGED <<n, workerVars, backend_calls>>

\* The arguments of a call of generate_groth16_proofs; defaulted records
\* whether r_s and s_s are the vectors of line 76-77.
BackendCall ==
    [provers |-> provers_c2, r_s |-> r_s, s_s |-> s_s, slots |-> Len(proofs),
     srs |-> srs, cids |-> [k \in 1 .. Len(provers_c2) |-> provers[provers_c2[k].ptr].cid],
     defaulted |-> randomization.tag = "None"]

\* The scalars a read past the end of v can yield.
Junk(v) == IF Len(v) < Len(provers_c2) THEN Fr ELSE {ZERO}

\* Mutant of Backend: one call of the backend for each circuit.
Backend_PerCircuit ==
    /\ pc = "backend"
    /\ backend_calls' = backend_calls \o
          [k \in 1 .. Len(provers_c2) |->
              [BackendCall EXCEPT !.provers = <<provers_c2[k]>>, !.slots = 1,
                                  !.cids = <<BackendCall.cids[k]>>]]
    /\ \E junk_r \in Junk(r_s), junk_s \in Junk(s_s) :
         proofs' = generate_groth16_proofs(provers, provers_c2, r_s, s_s, proofs,
                                           junk_r, junk_s)
    /\ pc' = "return"
    /\ UNCHANGED <<n, workerVars, provers, randomization, r_s, s_s, provers_c2,
                   srs, srs_queries, result>>

\* Lines 103-109: the call returns with the output buffer written.
Backend ==
    /\ pc = "backend"
    /\ backend_calls' = Append(backend_calls, BackendCall)
    /\ \E junk_r \in Junk(r_s), junk_s \in Junk(s_s) :
         proofs' = generate_groth16_proofs(provers, provers_c2, r_s, s_s, proofs,
                                           junk_r, junk_s)
    /\ pc' = "return"
    /\ UNCHANGED <<n, workerVars, provers, randomization, r_s, s_s, provers_c2,
                   srs, srs_queries, result>>

\* Lines 103-109: a read past the end of r_s or s_s can also end the process.
BackendFault ==
    /\ pc = "backend"
    /\ Len(r_s) < Len(provers_c2) \/ Len(s_s) < Len(provers_c2)
    /\ backend_calls' = Append(backend_calls, BackendCall)
    /\ result' = Panic("fault in generate_groth16_proofs")
    /\ pc' = "done"
    /\ DropLocals
    /\ UNCHANGED <<n, workerVars, srs, srs_queries>>

\* Line 114: the proofs move to the caller.
Return ==
    /\ pc = "return"
    /\ result' = Ok(proofs)
    /\ pc' = "done"
    /\ DropLocals
    /\ UNCHANGED <<n, workerVars, srs, srs_queries, backend_calls>>

Next ==
    \/ \E i \in 1 .. n : WorkerRun(i)
    \/ \E i \in 1 .. n : WorkerSkip(i)
    \/ Collect
    \/ RandomizeAndValidate
    \/ Export
    \/ AllocateProofs
    \/ GetSrs
    \/ Backend
    \/ BackendFault
    \/ Return

Spec == Init /\ [][Next]_vars

TypeOK ==
    /\ n \in 0 .. MaxCircuits
    /\ pc \in {"synthesize", "resolve_randomization", "export",
               "alloc_proofs", "get_srs", "backend", "return", "done"}
    /\ result.tag \in {"Pending", "Ok", "Err", "Panic"}
    /\ Len(backend_calls) <= 1

\* ================================================================== claims
Circuits == 1 .. n
AllSynthesized == \A i \in Circuits : wpc[i] = "ok"
SomeFailed == \E i \in Circuits : wpc[i] = "err"
SameArity ==
    \A i, j \in Circuits :
        Len(wprover[i].input_assignment) = Len(wprover[j].input_assignment)
SameSize == \A i, j \in Circuits : Len(wprover[i].a) = Len(wprover[j].a)
Called == backend_calls # <<>>
\* The export has run: the call stands after line 90, or went on to line 99,
\* or to the backend.
ExportReached ==
    \/ pc \in {"alloc_proofs", "get_srs", "backend", "return"}
    \/ srs # "unresolved"
    \/ Called

\* C1 (as claimed): a batch of circuits with the same number of public inputs
\* whose synthesis succeeds, with an SRS source that does not report
\* unavailability, ends with Ok and one written proof per circuit, and the
\* k-th view, the k-th pair (r, s) and the k-th proof all belong to circuit k.
C1_OneProofPerCircuitInOrder ==
    (pc = "done" /\ AllSynthesized /\ SameArity /\ srs # "unavailable") =>
        /\ result.tag = "Ok"
        /\ Len(result.proofs) = n
        /\ Len(backend_calls) = 1
        /\ Len(backend_calls[1].r_s) = n
        /\ Len(backend_calls[1].s_s) = n
        /\ \A k \in Circuits :
              /\ backend_calls[1].cids[k] = k
              /\ result.proofs[k].written
              /\ result.proofs[k].cid = k
              /\ result.proofs[k].r = backend_calls[1].r_s[k]
              /\ result.proofs[k].s = backend_calls[1].s_s[k]

\* C2 (as claimed): when the input_assignment of circuit 2 has another length
\* than that of circuit 1, the call fails and the backend is not called.
\* Failing is read as any outcome but Ok, the panic of the assertion included.
C2_ShapeMismatchFailsBeforeBackend ==
    (n >= 2 /\ AllSynthesized
       /\ Len(wprover[2].input_assignment) # Len(wprover[1].input_assignment)) =>
        (~Called /\ result.tag # "Ok")

C4_SynthesisErrorFailsBatch ==
    SomeFailed =>
        /\ pc \in {"synthesize", "done"}
        /\ provers = <<>>
        /\ pc = "done" =>
              /\ result.tag = "Err"
              /\ \E i \in Circuits : wpc[i] = "err" /\ werr[i] = result.err

\* Two circuits fail with different errors, and the error of the second one
\* is returned.
C4_Witness ==
    /\ pc = "done" /\ n >= 2
    /\ wpc[1] = "err" /\ wpc[2] = "err" /\ werr[1] # werr[2]
    /\ result = Err(werr[2])

C6_DefaultRandomizationIsZero ==
    \A c \in 1 .. Len(backend_calls) :
        backend_calls[c].defaulted =>
            /\ Len(backend_calls[c].r_s) = n
            /\ Len(backend_calls[c].s_s) = n
            /\ \A k \in Circuits :
                  backend_calls[c].r_s[k] = ZERO /\ backend_calls[c].s_s[k] = ZERO

C6_Witness ==
    Called /\ n >= 2 /\ backend_calls[1].defaulted /\ Len(backend_calls[1].r_s) = 2

\* The constraints a finished prover holds beyond those of the circuit.
Extra(p) == Len(p.a) - p.own

\* C7 (as claimed): a finished prover with k public inputs holds k constraints
\* beyond the circuit's own, after them, each input_i * 1 = input_i: the
\* recorded values are a = input_i, b = ONE, c = input_i.
C7_IdentityConstraintsTimesOne ==
    \A i \in Circuits :
        wpc[i] = "ok" =>
            LET p == wprover[i] IN
            /\ Extra(p) = Len(p.input_assignment)
            /\ \A j \in 1 .. Extra(p) :
                  /\ p.a[p.own + j] = p.input_assignment[j]
                  /\ p.b[p.own + j] = ONE
                  /\ p.c[p.own + j] = p.input_assignment[j]

\* C7 (amended): a finished prover with k entries in input_assignment (the
\* constant one and the inputs of the circuit) holds k constraints beyond the
\* circuit's own, after them, each input_i * 0 = 0: A is input_i, B and C are
\* empty, and the recorded values are a = input_i, b = ZERO, c = ZERO.
C7_IdentityConstraintsTimesZero ==
    \A i \in Circuits :
        wpc[i] = "ok" =>
            LET p == wprover[i] IN
            /\ p.own >= 0
            /\ Extra(p) = Len(p.input_assignment)
            /\ Len(p.lcs) = Len(p.a)
            /\ \A j \in 1 .. Extra(p) :
                  /\ p.lcs[p.own + j] =
                        [A |-> <<Term(Input(j - 1), ONE)>>, B |-> <<>>, C |-> <<>>]
                  /\ p.a[p.own + j] = p.input_assignment[j]
                  /\ p.b[p.own + j] = ZERO
                  /\ p.c[p.own + j] = ZERO

\* A finished prover of a circuit that allocated an input, beside one of a
\* circuit that recorded a constraint of its own.
C7_Witness ==
    \E i, j \in Circuits :
        /\ wpc[i] = "ok" /\ wpc[j] = "ok"
        /\ wprover[j].own >= 1
        /\ Len(wprover[i].handles) >= 1
        /\ Extra(wprover[i]) = 2

\* C8: in every prover that synthesis produces, slot 0 of input_assignment is
\* ONE and every input variable handed to the circuit has an index >= 1.
C8_ConstantOneFirst ==
    \A i \in Circuits :
        wpc[i] = "ok" =>
            /\ Len(wprover[i].input_assignment) >= 1
            /\ wprover[i].input_assignment[1] = ONE
            /\ \A h \in 1 .. Len(wprover[i].handles) : wprover[i].handles[h] >= 1

C8_Witness ==
    \E i \in Circuits :
        /\ wpc[i] = "ok"
        /\ Len(wprover[i].handles) >= 1
        /\ wprover[i].input_assignment[2] = CircuitValue

\* C9: every prover that synthesis produces has len(a) = len(b) = len(c), and
\* the export never panics on its two assertions.
C9_EqualLengths ==
    /\ \A i \in Circuits :
          wpc[i] = "ok" =>
              /\ Len(wprover[i].a) = Len(wprover[i].b)
              /\ Len(wprover[i].a) = Len(wprover[i].c)
    /\ \A k \in 1 .. Len(provers) : ExportAsserts(provers[k])
    /\ result # Panic("assertion failed: left == right")

C9_Witness ==
    /\ pc = "alloc_proofs" /\ n >= 2
    /\ \A k \in 1 .. Len(provers_c2) : provers_c2[k].abc_size >= 2

\* C10 (as claimed, for a nonempty batch): in every backend call the r scalars
\* and the s scalars are as many as the circuits of the batch, whether the
\* caller supplied them or not.
C10_ScalarArraysMatchBatch ==
    \A c \in 1 .. Len(backend_calls) :
        n >= 1 => (Len(backend_calls[c].r_s) = n /\ Len(backend_calls[c].s_s) = n)

\* The prover that a sequential run of the closure builds for circuit i of the
\* batch, from the calls that the circuit made and nothing else.
Sequential(i) ==
    IdentityConstraints(
        synthesize([ops |-> wprover[i].circuit, result |-> "Ok"], NewProver(i)))

Collected == pc \in {"resolve_randomization", "export", "alloc_proofs",
                     "get_srs", "backend", "return"}

Trackers == {"a_aux_density", "b_input_density", "b_aux_density"}

\* The number of set bits of a bit vector.
PopCount(bv) == Cardinality({j \in 1 .. Len(bv) : bv[j]})

\* At every step of the history of prover p the count of each tracker is the
\* number of its set bits, and the history ends in the trackers of p.
CountsAreExact(p) ==
    /\ \A j \in 1 .. Len(p.dlog) : \A t \in Trackers :
          p.dlog[j][t].total_density = PopCount(p.dlog[j][t].bv)
    /\ Len(p.dlog) >= 1
    /\ \A t \in Trackers : p.dlog[Len(p.dlog)][t] = p[t]

\* Every exported view carries, for each tracker, the length of its bit
\* vector and the number of its set bits.
ExportedCountsAreExact ==
    \A k \in 1 .. Len(provers_c2) :
        /\ provers_c2[k].a_aux_bit_len = Len(provers[k].a_aux_density.bv)
        /\ provers_c2[k].a_aux_popcount = PopCount(provers[k].a_aux_density.bv)
        /\ provers_c2[k].b_inp_bit_len = Len(provers[k].b_input_density.bv)
        /\ provers_c2[k].b_inp_popcount = PopCount(provers[k].b_input_density.bv)
        /\ provers_c2[k].b_aux_bit_len = Len(provers[k].b_aux_density.bv)
        /\ provers_c2[k].b_aux_popcount = PopCount(provers[k].b_aux_density.bv)

C13_BackendOnceWithFullBatch ==
    /\ Len(backend_calls) <= 1
    /\ \A c \in 1 .. Len(backend_calls) :
          /\ Len(backend_calls[c].provers) = n
          /\ backend_calls[c].slots = n
          /\ backend_calls[c].cids = [k \in 1 .. n |-> k]
    /\ result.tag = "Ok" => Len(backend_calls) = 1
    /\ result.tag = "Err" => Len(backend_calls) = 0

\* The call returned Ok for a batch of two circuits or more, after one call
\* of the backend.
C13_Witness ==
    /\ pc = "done"
    /\ result.tag = "Ok"
    /\ n >= 2
    /\ Len(backend_calls) = 1
    /\ Len(backend_calls[1].provers) >= 2

\* The views exist: the call stands between line 90 and line 114.
ViewsAlive == pc \in {"alloc_proofs", "get_srs", "backend", "return"}

\* The view made of prover p carries the lengths of p.
ViewMatches(view, p) ==
    /\ view.abc_size = Len(p.a)
    /\ view.abc_size = Len(p.b)
    /\ view.abc_size = Len(p.c)
    /\ view.inp_assignment_size = Len(p.input_assignment)
    /\ view.aux_assignment_size = Len(p.aux_assignment)
    /\ view.a_aux_bit_len = Len(p.a_aux_density.bv)
    /\ view.b_inp_bit_len = Len(p.b_input_density.bv)
    /\ view.b_aux_bit_len = Len(p.b_aux_density.bv)

\* C14: from the export until the backend has returned, every prover of the
\* batch is alive and is what synthesis left, view k points into prover k and
\* carries its lengths; the backend is called in such a state.
C14_ViewsBorrowLiveUnchangedProvers ==
    /\ ViewsAlive =>
          /\ Len(provers) = n
          /\ Len(provers_c2) = n
          /\ \A k \in Circuits :
                /\ provers[k] = wprover[k]
                /\ provers_c2[k].ptr = k
                /\ ViewMatches(provers_c2[k], provers[k])
    /\ \A c \in 1 .. Len(backend_calls) :
          \A k \in 1 .. Len(backend_calls[c].provers) :
              /\ backend_calls[c].provers[k].ptr = k
              /\ ViewMatches(backend_calls[c].provers[k], wprover[k])

\* The backend has returned for a batch of two circuits, one of which
\* allocated an auxiliary variable, and the provers are still in place.
C14_Witness ==
    /\ pc = "return"
    /\ n >= 2
    /\ Len(provers) = n
    /\ \E k \in Circuits : provers_c2[k].aux_assignment_size >= 1

\* C15 (as claimed): in every call of the backend every view has the
\* abc_size of the first view and the inp_assignment_size of the first view.
C15_ViewsHaveOneShape ==
    \A c \in 1 .. Len(backend_calls) :
        \A k \in 1 .. Len(backend_calls[c].provers) :
            /\ backend_calls[c].provers[k].abc_size
                   = backend_calls[c].provers[1].abc_size
            /\ backend_calls[c].provers[k].inp_assignment_size
                   = backend_calls[c].provers[1].inp_assignment_size

\* C16: the output buffer handed to the backend has one slot for each circuit;
\* the buffer moves to the caller only after the backend has returned, with
\* one written proof for each circuit; a call that ends otherwise hands no
\* buffer to the caller.
C16_OnlyWrittenProofsReturned ==
    /\ \A c \in 1 .. Len(backend_calls) : backend_calls[c].slots = n
    /\ pc = "return" => Called
    /\ result.tag = "Ok" =>
          /\ Called
          /\ Len(result.proofs) = n
          /\ \A k \in 1 .. Len(result.proofs) : result.proofs[k].written
    /\ result.tag # "Ok" => result.proofs = <<>>
    /\ \A k \in 1 .. Len(proofs) : ~proofs[k].written => result.tag = "Pending"

\* Two written proofs were returned.
C16_Witness ==
    /\ result.tag = "Ok"
    /\ Len(result.proofs) >= 2
    /\ \A k \in 1 .. Len(result.proofs) : result.proofs[k].written

\* Input variable v has a nonzero coefficient in the A combination of a
\* constraint that prover p recorded.
InSomeA(p, v) ==
    \E j \in 1 .. Len(p.lcs) :
        \E t \in 1 .. Len(p.lcs[j].A) :
            /\ p.lcs[j].A[t].var = Input(v)
            /\ p.lcs[j].A[t].coeff # ZERO

\* C17: in every prover that synthesis produces, every input variable, the
\* constant one included, has a nonzero coefficient in the A combination of
\* at least one recorded constraint, whether the circuit referred to it or
\* not.
C17_EveryInputInSomeA ==
    \A i \in Circuits :
        wpc[i] = "ok" =>
            \A v \in 0 .. Len(wprover[i].input_assignment) - 1 :
                InSomeA(wprover[i], v)

\* A finished prover of a circuit that allocated an input and recorded no
\* constraint.
C17_Witness ==
    \E i \in Circuits :
        /\ wpc[i] = "ok"
        /\ wprover[i].own = 0
        /\ Len(wprover[i].handles) >= 1
        /\ InSomeA(wprover[i], wprover[i].handles[1])

\* The prover of circuit i at the return of circuit.synthesize (line 134).
AtSynthesizeReturn(i) ==
    synthesize([ops |-> wprover[i].circuit, result |-> "Ok"], NewProver(i))

\* C18: in every prover that synthesis produces, the constraints added after
\* circuit.synthesize returned are as many as input_assignment was long at
\* that return, so a circuit that allocated m inputs and recorded n
\* constraints ends with n + m + 1 of them; adding them allocated no variable
\* and left input_assignment and aux_assignment as they were.
C18_IdentityStepCountsAndFrame ==
    \A i \in Circuits :
        wpc[i] = "ok" =>
            LET p == wprover[i]
                q == AtSynthesizeReturn(i)
            IN  /\ q.own = Len(q.a)
                /\ p.own = q.own
                /\ Len(p.a) - Len(q.a) = Len(q.input_assignment)
                /\ Len(q.input_assignment) = Len(q.handles) + 1
                /\ Len(p.a) = p.own + Len(p.handles) + 1
                /\ p.input_assignment = q.input_assignment
                /\ p.aux_assignment = q.aux_assignment
                /\ p.handles = q.handles
                /\ SubSeq(p.a, 1, Len(q.a)) = q.a
                /\ SubSeq(p.b, 1, Len(q.b)) = q.b
                /\ SubSeq(p.c, 1, Len(q.c)) = q.c

\* Finished provers of a circuit that allocated an input (two constraints,
\* both added after its return) and of a circuit that recorded a constraint
\* (two constraints, one of them its own).
C18_Witness ==
    \E i, j \in Circuits :
        /\ wpc[i] = "ok" /\ wpc[j] = "ok"
        /\ Len(wprover[i].handles) = 1 /\ wprover[i].own = 0
        /\ Len(wprover[i].a) = 2
        /\ Len(wprover[j].handles) = 0 /\ wprover[j].own = 1
        /\ Len(wprover[j].a) = 2

\* C19: the SRS source is asked at most once in a call, and only when every
\* circuit has synthesized, the batch has passed the validation and the
\* export; a call in which a circuit failed never asks it and returns the
\* error of a circuit, never MalformedSrs, whatever the SRS source would
\* have answered.
C19_SynthesisErrorBeforeSrs ==
    /\ srs_queries <= 1
    /\ (srs_queries = 0) <=> (srs = "unresolved")
    /\ srs_queries >= 1 =>
          /\ AllSynthesized
          /\ saved_error = NoError
          /\ SameSize
          /\ \A i \in Circuits : ExportAsserts(wprover[i])
          /\ pc \in {"backend", "return", "done"}
    /\ pc \in {"synthesize", "resolve_randomization", "export",
                "alloc_proofs", "get_srs"} => srs_queries = 0
    /\ SomeFailed =>
          /\ srs_queries = 0
          /\ pc = "done" =>
                /\ result.tag = "Err"
                /\ result.err \in CircuitErrors
                /\ result.err # MalformedSrs
                /\ \E i \in Circuits : wpc[i] = "err" /\ werr[i] = result.err

\* A call in which a circuit failed has returned that circuit's error beside
\* a circuit that synthesized, and the SRS source was not asked.
C19_Witness ==
    /\ pc = "done"
    /\ SomeFailed
    /\ \E i \in Circuits : wpc[i] = "ok"
    /\ result.tag = "Err"
    /\ result.err \in CircuitErrors
    /\ srs_queries = 0

\* C20 (as claimed): a call on an empty batch neither panics nor returns
\* another error than MalformedSrs; with an SRS it calls the backend once,
\* with no view, no r scalar, no s scalar and an empty output buffer, and
\* returns an empty list of proofs; without an SRS it returns MalformedSrs
\* and calls no backend.
C20_EmptyBatch ==
    n = 0 =>
        /\ result.tag # "Panic"
        /\ result.tag = "Err" => result.err = MalformedSrs
        /\ \A c \in 1 .. Len(backend_calls) :
              /\ backend_calls[c].provers = <<>>
              /\ backend_calls[c].slots = 0
              /\ backend_calls[c].r_s = <<>>
              /\ backend_calls[c].s_s = <<>>
        /\ (pc = "done" /\ srs = "handle") =>
              (result = Ok(<<>>) /\ Len(backend_calls) = 1)
        /\ (pc = "done" /\ srs = "unavailable") =>
              (result = Err(MalformedSrs) /\ ~Called)

====
